---- MODULE Spec2Model ----
(***************************************************************************)
(* Model of src/src/otlp_decoder_function/lambda_function.py: the Firehose *)
(* transformation that decodes a length-delimited stream of OTLP 0.7.0     *)
(* ExportMetricsServiceRequest messages, appends one custom DoubleSummary  *)
(* metric per target function and scope, and re-encodes the stream.        *)
(*                                                                         *)
(* Representation.  A bytes object is a sequence of numbers 0..255.  A str *)
(* that ends up in a protobuf string field is the sequence of its UTF-8    *)
(* bytes.  A base64 str (record['data']) is the sequence of its            *)
(* characters, each character written as its index in the base64 alphabet  *)
(* (0..63), 64 for '=', 65 for an ASCII character outside the alphabet and  *)
(* 66 for a character outside ASCII.                                        *)
(* Python positions are 0-based, so buffer[pos] is buffer[pos + 1] here.   *)
(* A call that may raise returns a record whose field err names the        *)
(* exception ("" when it returns normally).                                *)
(***************************************************************************)
EXTENDS Integers, Sequences, FiniteSets, TLC

\* ------------------------------------------------------------------------
\* Bytes
\* ------------------------------------------------------------------------

RECURSIVE Concat(_)
\* b"".join(pieces)
Concat(pieces) ==
    IF pieces = <<>> THEN <<>> ELSE Head(pieces) \o Concat(Tail(pieces))

\* data[start : start + length] for start <= len(data): a Python slice is
\* clamped to the end of the buffer, it never raises.
PySlice(data, start, length) ==
    SubSeq(data, start + 1,
           IF length >= Len(data) - start THEN Len(data) ELSE start + length)

\* The part of (x << shift) that lies in bits 0..30, for a 7-bit group x.
Low31Shift(x, shift) ==
    IF shift >= 31 THEN 0
    ELSE IF shift <= 21 THEN x * (2 ^ shift)
    ELSE (x % (2 ^ (31 - shift))) * (2 ^ shift)

RECURSIVE VarintLoop(_, _, _, _, _)
\* google.protobuf.internal.decoder._VarintDecoder(mask): the loop of
\* DecodeVarint.  result is kept as its bits 0..30 (low) and its bit 31
\* (high); bits 32 and up are the ones the 32-bit mask drops.  A value of
\* 2^31 or more is returned as 2^31 - 1: it is used only as a length, and
\* both exceed the length of any buffer.
VarintLoop(buffer, pos, low, high, shift) ==
    IF pos >= Len(buffer) THEN [err |-> "IndexError"]
    ELSE LET b     == buffer[pos + 1]
             low2  == low + Low31Shift(b % 128, shift)
             high2 == high \/ (shift = 28 /\ ((b % 128) \div 8) % 2 = 1)
         IN  IF b < 128
             THEN [err |-> "",
                   value |-> IF high2 THEN 2147483647 ELSE low2,
                   pos |-> pos + 1]
             ELSE IF shift + 7 >= 64 THEN [err |-> "DecodeError"]
             ELSE VarintLoop(buffer, pos + 1, low2, high2, shift + 7)

\* decoder._DecodeVarint32(data, position) -> (value, new_position)
DecodeVarint32(buffer, pos) == VarintLoop(buffer, pos, 0, FALSE, 0)

RECURSIVE VarintBytes(_)
\* encoder._VarintEncoder(): the bytes written for a non-negative value.
VarintBytes(value) ==
    IF value < 128 THEN <<value>>
    ELSE <<128 + (value % 128)>> \o VarintBytes(value \div 128)

\* ------------------------------------------------------------------------
\* The protobuf wire format, as ExportMetricsServiceRequest.ParseFromString
\* and SerializeToString of opentelemetry-proto 0.7.0 use it.  The model
\* reads the tree down to the labels, which is what the function walks:
\*   ExportMetricsServiceRequest { resource_metrics = 1 }
\*   ResourceMetrics { resource = 1, instrumentation_library_metrics = 2 }
\*   InstrumentationLibraryMetrics { instrumentation_library = 1, metrics = 2 }
\*   Metric { name = 1, description = 2, unit = 3,
\*            oneof data { int_gauge = 4, double_gauge = 5, int_sum = 6,
\*                         double_sum = 7, int_histogram = 8,
\*                         double_histogram = 9, double_summary = 11 } }
\*   <each data message> { data_points = 1, ... }
\*   <each data point>   { labels = 1, ... }
\*   StringKeyValue { key = 1, value = 2 }
\* The fields the model does not read (resource, instrumentation_library,
\* the numeric fields of a parsed data point, ...) are carried as the bytes
\* they arrived in and written back in field order.
\* ------------------------------------------------------------------------

\* A length-delimited field: tag, length, payload.
LenField(num, payload) ==
    VarintBytes(num * 8 + 2) \o VarintBytes(Len(payload)) \o payload

\* A 64-bit field: tag, then the 8 bytes.
Fixed64Field(num, bytes8) == VarintBytes(num * 8 + 1) \o bytes8

\* The 8 little-endian bytes of a fixed64 value (below 2^31 in this model).
Fixed64(n) ==
    [i \in 1..8 |-> IF i > 4 THEN 0 ELSE (n \div (256 ^ (i - 1))) % 256]

\* The IEEE-754 binary64 bit patterns, little-endian, of the two float
\* literals of the source: a Python float is held as these 8 bytes.
Double0 == <<0, 0, 0, 0, 0, 0, 0, 0>>
Double1 == <<0, 0, 0, 0, 0, 0, 240, 63>>

RECURSIVE Utf8From(_, _)
\* The string fields are proto3 strings: the parser rejects a payload that
\* is not well-formed UTF-8.
Utf8From(s, i) ==
    LET n == Len(s)
        Cont(j) == j <= n /\ s[j] >= 128 /\ s[j] <= 191
        In(j, lo, hi) == j <= n /\ s[j] >= lo /\ s[j] <= hi
    IN  IF i > n THEN TRUE
        ELSE LET b == s[i] IN
             IF b < 128 THEN Utf8From(s, i + 1)
             ELSE IF b >= 194 /\ b <= 223
                  THEN Cont(i + 1) /\ Utf8From(s, i + 2)
             ELSE IF b = 224
                  THEN In(i + 1, 160, 191) /\ Cont(i + 2) /\ Utf8From(s, i + 3)
             ELSE IF b = 237
                  THEN In(i + 1, 128, 159) /\ Cont(i + 2) /\ Utf8From(s, i + 3)
             ELSE IF b >= 225 /\ b <= 239
                  THEN Cont(i + 1) /\ Cont(i + 2) /\ Utf8From(s, i + 3)
             ELSE IF b = 240
                  THEN In(i + 1, 144, 191) /\ Cont(i + 2) /\ Cont(i + 3)
                       /\ Utf8From(s, i + 4)
             ELSE IF b = 244
                  THEN In(i + 1, 128, 143) /\ Cont(i + 2) /\ Cont(i + 3)
                       /\ Utf8From(s, i + 4)
             ELSE IF b >= 241 /\ b <= 243
                  THEN Cont(i + 1) /\ Cont(i + 2) /\ Cont(i + 3)
                       /\ Utf8From(s, i + 4)
             ELSE FALSE

IsValidUtf8(s) == Utf8From(s, 1)

\* One field at buf[pos]: its number, wire type, payload and raw bytes, and
\* the position after it.  Wire types: 0 varint, 1 64-bit, 2 length-
\* delimited, 5 32-bit.  A truncated field, field number 0, or another wire
\* type is a DecodeError (groups are not part of this schema).
ReadField(buf, pos) ==
    LET t == VarintLoop(buf, pos, 0, FALSE, 0) IN
    IF t.err # "" THEN [err |-> "DecodeError"]
    ELSE
    LET num == t.value \div 8
        wt  == t.value % 8
        Ok(from, to) ==
            [err |-> "", num |-> num, wt |-> wt,
             payload |-> SubSeq(buf, from + 1, to),
             raw |-> SubSeq(buf, pos + 1, to), next |-> to]
        v == VarintLoop(buf, t.pos, 0, FALSE, 0)
    IN  IF num = 0 THEN [err |-> "DecodeError"]
        ELSE IF wt = 0
             THEN IF v.err # "" THEN [err |-> "DecodeError"]
                  ELSE Ok(t.pos, v.pos)
        ELSE IF wt = 1
             THEN IF Len(buf) - t.pos < 8 THEN [err |-> "DecodeError"]
                  ELSE Ok(t.pos, t.pos + 8)
        ELSE IF wt = 5
             THEN IF Len(buf) - t.pos < 4 THEN [err |-> "DecodeError"]
                  ELSE Ok(t.pos, t.pos + 4)
        ELSE IF wt = 2
             THEN IF v.err # "" THEN [err |-> "DecodeError"]
                  ELSE IF v.value > Len(buf) - v.pos
                       THEN [err |-> "DecodeError"]
                  ELSE Ok(v.pos, v.pos + v.value)
        ELSE [err |-> "DecodeError"]

RECURSIVE FieldsFrom(_, _, _)
FieldsFrom(buf, pos, acc) ==
    IF pos >= Len(buf) THEN [err |-> "", fields |-> acc]
    ELSE LET f == ReadField(buf, pos) IN
         IF f.err # "" THEN [err |-> "DecodeError"]
         ELSE FieldsFrom(buf, f.next, Append(acc, f))

\* The fields of one message, in the order of the buffer.
ParseFields(buf) == FieldsFrom(buf, 0, <<>>)

\* Helpers over a field list.
\* A singular embedded message the model does not read: occurrences merge,
\* which for the carried bytes is their concatenation.
Merged(payloads) == IF payloads = <<>> THEN <<>> ELSE <<Concat(payloads)>>
\* The payloads of the length-delimited fields numbered in nums, in order.
Payloads(fields, nums) ==
    LET sel == SelectSeq(fields, LAMBDA f : f.wt = 2 /\ f.num \in nums)
    IN  [j \in 1..Len(sel) |-> sel[j].payload]
\* The raw bytes of the other fields, in order.
RawOfOthers(fields, nums) ==
    LET sel == SelectSeq(fields, LAMBDA f : ~(f.wt = 2 /\ f.num \in nums))
    IN  Concat([j \in 1..Len(sel) |-> sel[j].raw])
\* A singular field: the last occurrence wins; the default when absent.
LastOr(payloads, default) ==
    IF payloads = <<>> THEN default ELSE payloads[Len(payloads)]
AnyErr(results) == \E j \in 1..Len(results) : results[j].err # ""
Msgs(results) == [j \in 1..Len(results) |-> results[j].msg]
DecodeError == [err |-> "DecodeError"]

\* The members of Metric's oneof data, by field number.
DataFieldNumbers == {4, 5, 6, 7, 8, 9, 11}
DataFieldName(num) ==
    CASE num = 4 -> "int_gauge"
      [] num = 5 -> "double_gauge"
      [] num = 6 -> "int_sum"
      [] num = 7 -> "double_sum"
      [] num = 8 -> "int_histogram"
      [] num = 9 -> "double_histogram"
      [] num = 11 -> "double_summary"
DataFieldNumber(name) ==
    CHOOSE num \in DataFieldNumbers : DataFieldName(num) = name

\* The schema, by message kind: the fields that hold the messages the
\* model reads, the kind of those messages, and the string fields.
ChildFields(kind) ==
    CASE kind = "StringKeyValue" -> {}
      [] kind = "DataPoint" -> {1}
      [] kind = "Data" -> {1}
      [] kind = "Metric" -> DataFieldNumbers
      [] kind = "InstrumentationLibraryMetrics" -> {2}
      [] kind = "ResourceMetrics" -> {2}
      [] kind = "ExportMetricsServiceRequest" -> {1}
ChildKind(kind) ==
    CASE kind = "DataPoint" -> "StringKeyValue"
      [] kind = "Data" -> "DataPoint"
      [] kind = "Metric" -> "Data"
      [] kind = "InstrumentationLibraryMetrics" -> "Metric"
      [] kind = "ResourceMetrics" -> "InstrumentationLibraryMetrics"
      [] kind = "ExportMetricsServiceRequest" -> "ResourceMetrics"
      [] OTHER -> "None"
StringFields(kind) ==
    CASE kind = "StringKeyValue" -> {1, 2}
      [] kind = "Metric" -> {1, 2, 3}
      [] OTHER -> {}

\* Metric's oneof: children are the parsed data messages of the fields
\* dataFields, in order.  The oneof keeps the member set last; occurrences
\* of that member that follow the last occurrence of any other member are
\* merged.
OneofData(dataFields, children) ==
    LET n      == Len(dataFields)
        member == dataFields[n].num
        others == {j \in 1..n : dataFields[j].num # member}
        from   == IF others = {} THEN 1
                  ELSE 1 + (CHOOSE j \in others : \A k \in others : k <= j)
    IN  [data |-> DataFieldName(member),
         data_points |-> Concat([j \in 1..(n - from + 1) |->
                                    children[from + j - 1].data_points]),
         rest |-> Concat([j \in 1..(n - from + 1) |->
                             children[from + j - 1].rest])]

\* The message of a kind, from its fields and its parsed children.
Message(kind, fields, children) ==
    LET unknown == RawOfOthers(fields, ChildFields(kind) \cup StringFields(kind))
    IN
    CASE kind = "StringKeyValue" ->
             [key |-> LastOr(Payloads(fields, {1}), <<>>),
              value |-> LastOr(Payloads(fields, {2}), <<>>),
              unknown |-> unknown]
      [] kind = "DataPoint" ->
             \* any of the seven kinds: labels = 1, the rest carried
             [labels |-> children, rest |-> unknown]
      [] kind = "Data" ->
             \* any of the seven kinds: data_points = 1, the rest
             \* (aggregation_temporality, is_monotonic) carried
             [data_points |-> children, rest |-> unknown]
      [] kind = "Metric" ->
             LET data == IF children = <<>>
                         THEN [data |-> "None", data_points |-> <<>>,
                               rest |-> <<>>]
                         ELSE OneofData(
                                  SelectSeq(fields, LAMBDA f :
                                      f.wt = 2 /\ f.num \in DataFieldNumbers),
                                  children)
             IN  [name |-> LastOr(Payloads(fields, {1}), <<>>),
                  description |-> LastOr(Payloads(fields, {2}), <<>>),
                  unit |-> LastOr(Payloads(fields, {3}), <<>>),
                  data |-> data.data,
                  data_points |-> data.data_points,
                  rest |-> data.rest,
                  unknown |-> unknown]
      [] kind = "InstrumentationLibraryMetrics" ->
             [instrumentation_library |-> Merged(Payloads(fields, {1})),
              metrics |-> children,
              unknown |-> RawOfOthers(fields, {1, 2})]
      [] kind = "ResourceMetrics" ->
             [resource |-> Merged(Payloads(fields, {1})),
              instrumentation_library_metrics |-> children,
              unknown |-> RawOfOthers(fields, {1, 2})]
      [] kind = "ExportMetricsServiceRequest" ->
             [resource_metrics |-> children, unknown |-> unknown]

\* The string fields are valid, the children parsed: the message.
Checked(kind, fields, strings, results) ==
    IF \E j \in 1..Len(strings) : ~IsValidUtf8(strings[j]) THEN DecodeError
    ELSE IF AnyErr(results) THEN DecodeError
    ELSE [err |-> "", msg |-> Message(kind, fields, Msgs(results))]

RECURSIVE ParseMessage(_, _)

ParseChildren(kind, payloads) ==
    [j \in 1..Len(payloads) |-> ParseMessage(kind, payloads[j])]

ParseParts(kind, p) ==
    IF p.err # "" THEN DecodeError
    ELSE Checked(kind, p.fields, Payloads(p.fields, StringFields(kind)),
                 ParseChildren(ChildKind(kind),
                               Payloads(p.fields, ChildFields(kind))))

\* A message of the given kind from its bytes.
ParseMessage(kind, buf) == ParseParts(kind, ParseFields(buf))

\* request = ExportMetricsServiceRequest(); request.ParseFromString(msg_buf)
ParseFromString(msg_buf) == ParseMessage("ExportMetricsServiceRequest", msg_buf)

\* --- SerializeToString: fields in field-number order, then the bytes the
\* parser carried.  A proto3 scalar or string at its default is not written;
\* a member of the oneof that is set is written even when empty.

Serialized(items, num) ==
    Concat([j \in 1..Len(items) |-> LenField(num, items[j])])
StringField(num, str) == IF str = <<>> THEN <<>> ELSE LenField(num, str)

SerializeLabel(l) ==
    StringField(1, l.key) \o StringField(2, l.value) \o l.unknown

\* DoubleSummaryDataPoint.ValueAtQuantile { quantile = 1, value = 2 }
SerializeQuantile(q) ==
    (IF q.quantile = Double0 THEN <<>> ELSE Fixed64Field(1, q.quantile))
    \o (IF q.value = Double0 THEN <<>> ELSE Fixed64Field(2, q.value))

\* A parsed data point carries its other fields in rest; the one the
\* function builds is a DoubleSummaryDataPoint { labels = 1,
\* start_time_unix_nano = 2, time_unix_nano = 3, count = 4, sum = 5,
\* quantile_values = 6 }.
SerializeDataPoint(dp) ==
    Serialized([j \in 1..Len(dp.labels) |-> SerializeLabel(dp.labels[j])], 1)
    \o (IF "rest" \in DOMAIN dp THEN dp.rest
        ELSE (IF dp.start_time_unix_nano = 0 THEN <<>>
              ELSE Fixed64Field(2, Fixed64(dp.start_time_unix_nano)))
             \o (IF dp.time_unix_nano = 0 THEN <<>>
                 ELSE Fixed64Field(3, Fixed64(dp.time_unix_nano)))
             \o (IF dp.count = 0 THEN <<>>
                 ELSE Fixed64Field(4, Fixed64(dp.count)))
             \o (IF dp.sum = Double0 THEN <<>> ELSE Fixed64Field(5, dp.sum))
             \o Serialized([j \in 1..Len(dp.quantile_values) |->
                              SerializeQuantile(dp.quantile_values[j])], 6))

SerializeMetric(m) ==
    StringField(1, m.name) \o StringField(2, m.description)
    \o StringField(3, m.unit)
    \o (IF m.data = "None" THEN <<>>
        ELSE LenField(DataFieldNumber(m.data),
                 Serialized([j \in 1..Len(m.data_points) |->
                                SerializeDataPoint(m.data_points[j])], 1)
                 \o m.rest))
    \o m.unknown

SerializeIlm(ilm) ==
    Serialized(ilm.instrumentation_library, 1)
    \o Serialized([j \in 1..Len(ilm.metrics) |->
                      SerializeMetric(ilm.metrics[j])], 2)
    \o ilm.unknown

SerializeResourceMetrics(rm) ==
    Serialized(rm.resource, 1)
    \o Serialized([j \in 1..Len(rm.instrumentation_library_metrics) |->
                      SerializeIlm(rm.instrumentation_library_metrics[j])], 2)
    \o rm.unknown

\* request.SerializeToString()
SerializeToString(request) ==
    Serialized([j \in 1..Len(request.resource_metrics) |->
                   SerializeResourceMetrics(request.resource_metrics[j])], 1)
    \o request.unknown

\* ------------------------------------------------------------------------
\* The module's globals (lines 20-28), set once when the module is loaded.
\* ------------------------------------------------------------------------

VARIABLES
    TARGET_FUNCTION_NAMES,  \* list of str
    ATTRIBUTE_KEY,          \* str or None
    ATTRIBUTE_VALUE,        \* str or None
    \* handler
    event,                  \* the event: [records |-> list of records]
    output_records,         \* handler's local list
    pc,                     \* where the running function is
    \* add_custom_summary_metric, statement by statement
    reqs,                   \* its argument requests, mutated in place
    at,                     \* the loop variables, as indices
    processed_functions,
    new_metrics_to_add,
    wall_clock,             \* what time.time() returns now, in ticks
    \* what is not the program's: kept to state the properties
    original,               \* reqs as they were passed
    last_created,           \* the last call of create_custom_summary_metric
    \* the frame codec on its own
    stream,                 \* a byte stream
    parsed                  \* what parse_delimited_stream made of it

vars == <<TARGET_FUNCTION_NAMES, ATTRIBUTE_KEY, ATTRIBUTE_VALUE, event,
          output_records, pc, reqs, at, processed_functions,
          new_metrics_to_add, wall_clock, original, last_created, stream,
          parsed>>
config == <<TARGET_FUNCTION_NAMES, ATTRIBUTE_KEY, ATTRIBUTE_VALUE>>

\* None: a value that is no str.
None == <<-1>>

\* FUNCTION_NAME_LABEL_KEY = "FunctionName"
FUNCTION_NAME_LABEL_KEY ==
    <<70, 117, 110, 99, 116, 105, 111, 110, 78, 97, 109, 101>>

\* os.environ.get(name, default); environ is a function from the names of
\* the variables that are set to their values.
EnvironGet(environ, name, default) ==
    IF name \in DOMAIN environ THEN environ[name] ELSE default

RECURSIVE Split(_, _)
\* str.split(sep) for a one-character separator
Split(str, sep) ==
    IF \A i \in 1..Len(str) : str[i] # sep THEN <<str>>
    ELSE LET i == CHOOSE k \in 1..Len(str) :
                      str[k] = sep /\ \A j \in 1..(k - 1) : str[j] # sep
         IN  <<SubSeq(str, 1, i - 1)>> \o Split(SubSeq(str, i + 1, Len(str)), sep)

\* The characters str.strip() removes, those str.isspace() is true of, in
\* UTF-8: U+0009..000D, U+001C..0020, U+0085, U+00A0, U+1680,
\* U+2000..200A, U+2028, U+2029, U+202F, U+205F, U+3000.
Whitespace ==
    {<<c>> : c \in {9, 10, 11, 12, 13, 28, 29, 30, 31, 32}}
    \cup {<<194, 133>>, <<194, 160>>, <<225, 154, 128>>}
    \cup {<<226, 128, c>> : c \in (128..138) \cup {168, 169, 175}}
    \cup {<<226, 129, 159>>, <<227, 128, 128>>}

\* The whitespace characters str begins with, and those it ends with.
Leading(str) ==
    {w \in Whitespace : Len(w) <= Len(str) /\ SubSeq(str, 1, Len(w)) = w}
Trailing(str) ==
    {w \in Whitespace :
        /\ Len(w) <= Len(str)
        /\ SubSeq(str, Len(str) - Len(w) + 1, Len(str)) = w}

RECURSIVE LStrip(_)
LStrip(str) ==
    IF Leading(str) = {} THEN str
    ELSE LStrip(SubSeq(str, Len(CHOOSE w \in Leading(str) : TRUE) + 1,
                       Len(str)))

RECURSIVE RStrip(_)
RStrip(str) ==
    IF Trailing(str) = {} THEN str
    ELSE RStrip(SubSeq(str, 1,
                       Len(str) - Len(CHOOSE w \in Trailing(str) : TRUE)))

\* str.strip()
Strip(str) == RStrip(LStrip(str))

\* [name.strip() for name in s.split(',') if name.strip()]
SplitNames(names_str) ==
    LET parts    == Split(names_str, 44)
        stripped == [j \in 1..Len(parts) |-> Strip(parts[j])]
    IN  SelectSeq(stripped, LAMBDA name : name # <<>>)

\* Python truthiness of a str or None.
Truthy(x) == x # None /\ x # <<>>

\* x in list
InList(x, list) == \E j \in 1..Len(list) : list[j] = x

\* ------------------------------------------------------------------------
\* parse_delimited_stream (lines 31-45)
\* ------------------------------------------------------------------------

RECURSIVE ParseLoop(_, _, _, _)
\* The while loop.  messages are the parsed requests; frames are the
\* msg_buf slices they were parsed from.
ParseLoop(data, position, messages, frames) ==
    IF ~(position < Len(data))
    THEN [err |-> "", messages |-> messages, frames |-> frames]
    ELSE LET v == DecodeVarint32(data, position) IN
         IF v.err # "" THEN [err |-> v.err]
         ELSE LET msg_len == v.value
                  msg_buf == PySlice(data, v.pos, msg_len)
                  \* position += msg_len; past the end of data the loop
                  \* condition reads the same for every position
                  next    == IF msg_len >= Len(data) - v.pos THEN Len(data)
                             ELSE v.pos + msg_len
                  request == ParseFromString(msg_buf)
              IN  IF request.err # "" THEN [err |-> request.err]
                  ELSE ParseLoop(data, next, Append(messages, request.msg),
                                 Append(frames, msg_buf))

parse_delimited_stream(data) == ParseLoop(data, 0, <<>>, <<>>)

\* ------------------------------------------------------------------------
\* serialize_requests_to_delimited_stream (lines 133-146)
\* ------------------------------------------------------------------------

\* A length prefix of one byte whatever the length.
FrameOneByte(serialized_msg) ==
    <<Len(serialized_msg) % 128>> \o serialized_msg

\* Lines 142-145 for one serialized message: its varint length, then it.
Frame(serialized_msg) == VarintBytes(Len(serialized_msg)) \o serialized_msg

serialize_requests_to_delimited_stream(requests) ==
    Concat([j \in 1..Len(requests) |-> Frame(SerializeToString(requests[j]))])

\* ------------------------------------------------------------------------
\* time.time()
\* ------------------------------------------------------------------------

\* The wall clock is read in ticks of 1/TicksPerSecond of a second.
TicksPerSecond == 2
\* What the calls of time.time() made while one list of requests is
\* processed return: clock lists the readings, the k-th call returns the
\* k-th of them, and the last of them once the list is used up.
Reading(clock, k) == clock[IF k <= Len(clock) THEN k ELSE Len(clock)]

\* ------------------------------------------------------------------------
\* create_custom_summary_metric (lines 47-87)
\* ------------------------------------------------------------------------

StringKeyValue(key, value) == [key |-> key, value |-> value, unknown |-> <<>>]

\* "amazonaws.com/AWS/Lambda/Custom"
CustomMetricName ==
    <<97, 109, 97, 122, 111, 110, 97, 119, 115, 46, 99, 111, 109, 47, 65, 87,
      83, 47, 76, 97, 109, 98, 100, 97, 47, 67, 117, 115, 116, 111, 109>>
\* "{Count}"
CustomMetricUnit == <<123, 67, 111, 117, 110, 116, 125>>
\* "Namespace", "AWS/Lambda", "MetricName", "Custom"
StrNamespace == <<78, 97, 109, 101, 115, 112, 97, 99, 101>>
StrAwsLambda == <<65, 87, 83, 47, 76, 97, 109, 98, 100, 97>>
StrMetricName == <<77, 101, 116, 114, 105, 99, 78, 97, 109, 101>>
StrCustom == <<67, 117, 115, 116, 111, 109>>

\* The custom attributes ahead of the fixed labels.
LabelsAttrsFirst(function_name, custom_attrs) ==
    [j \in 1..Len(custom_attrs) |->
        StringKeyValue(custom_attrs[j].key, custom_attrs[j].value)]
    \o <<StringKeyValue(StrNamespace, StrAwsLambda),
         StringKeyValue(StrMetricName, StrCustom),
         StringKeyValue(FUNCTION_NAME_LABEL_KEY, function_name)>>

\* Lines 57-63.  custom_attrs is a dict: here the list of its items, in
\* insertion order.
Labels(function_name, custom_attrs) ==
    <<StringKeyValue(StrNamespace, StrAwsLambda),
      StringKeyValue(StrMetricName, StrCustom),
      StringKeyValue(FUNCTION_NAME_LABEL_KEY, function_name)>>
    \o [j \in 1..Len(custom_attrs) |->
           StringKeyValue(custom_attrs[j].key, custom_attrs[j].value)]

\* now is what time.time() returns, in ticks.
create_custom_summary_metric(function_name, custom_attrs, now) ==
    LET current_time_unix_nano == (now \div TicksPerSecond) * 1000000000
        quantile_values ==
            <<[quantile |-> Double0, value |-> Double1],
              [quantile |-> Double1, value |-> Double1]>>
        data_point ==
            [labels |-> Labels(function_name, custom_attrs),
             start_time_unix_nano |-> current_time_unix_nano,
             time_unix_nano |-> current_time_unix_nano,
             count |-> 1,
             sum |-> Double1,
             quantile_values |-> quantile_values]
    IN  [name |-> CustomMetricName,
         description |-> <<>>,
         unit |-> CustomMetricUnit,
         data |-> "double_summary",
         data_points |-> <<data_point>>,
         rest |-> <<>>,
         unknown |-> <<>>]

\* ------------------------------------------------------------------------
\* add_custom_summary_metric (lines 89-128)
\* ------------------------------------------------------------------------

\* Only the target names are looked at.
TargetsConfigured == TARGET_FUNCTION_NAMES # <<>>

\* Line 94
ConfigurationComplete ==
    TARGET_FUNCTION_NAMES # <<>> /\ Truthy(ATTRIBUTE_KEY)
    /\ Truthy(ATTRIBUTE_VALUE)

\* Line 98
CustomAttrs == <<[key |-> ATTRIBUTE_KEY, value |-> ATTRIBUTE_VALUE]>>

\* Line 115 without its last condition.
IsTarget(label, processed) ==
    /\ label.key = FUNCTION_NAME_LABEL_KEY
    /\ InList(label.value, TARGET_FUNCTION_NAMES)

\* Line 115
IsNewTarget(label, processed) ==
    /\ label.key = FUNCTION_NAME_LABEL_KEY
    /\ InList(label.value, TARGET_FUNCTION_NAMES)
    /\ label.value \notin processed

\* Lines 115-124, one label.  st holds processed_functions and
\* new_metrics_to_add of the scope being scanned, and calls, the number of
\* calls of time.time() made so far.
ScanLabel(st, label, clock) ==
    IF IsNewTarget(label, st.processed_functions)
    THEN LET function_name == label.value
             info_metric ==
                 create_custom_summary_metric(function_name, CustomAttrs,
                                              Reading(clock, st.calls + 1))
         IN  [processed_functions |-> st.processed_functions \cup {function_name},
              new_metrics_to_add |-> Append(st.new_metrics_to_add, info_metric),
              calls |-> st.calls + 1]
    ELSE st

RECURSIVE ScanLabels(_, _, _, _)
\* Line 113: for label in dp.labels, from the i-th on
ScanLabels(st, labels, i, clock) ==
    IF i > Len(labels) THEN st
    ELSE ScanLabels(ScanLabel(st, labels[i], clock), labels, i + 1, clock)

RECURSIVE ScanDataPoints(_, _, _, _)
\* Line 112: for dp in metric_data.data_points, from the i-th on
ScanDataPoints(st, data_points, i, clock) ==
    IF i > Len(data_points) THEN st
    ELSE ScanDataPoints(ScanLabels(st, data_points[i].labels, 1, clock),
                        data_points, i + 1, clock)

\* Lines 108-124, one metric
ScanMetric(st, metric, clock) ==
    LET metric_type == metric.data IN
    IF metric_type = "None" THEN st
    ELSE ScanDataPoints(st, metric.data_points, 1, clock)

RECURSIVE ScanMetrics(_, _, _, _)
\* Line 107: for metric in ilm.metrics, from the i-th on
ScanMetrics(st, metrics, i, clock) ==
    IF i > Len(metrics) THEN st
    ELSE ScanMetrics(ScanMetric(st, metrics[i], clock), metrics, i + 1, clock)

\* Lines 104-106
ScopeStart(calls) ==
    [processed_functions |-> {}, new_metrics_to_add |-> <<>>, calls |-> calls]

\* The new metrics put ahead of the scope's own.
ExtendInFront(ilm, new_metrics) ==
    [ilm EXCEPT !.metrics = new_metrics \o @]

\* The new metrics appended last created first.
ExtendReversed(ilm, new_metrics) ==
    [ilm EXCEPT !.metrics =
        @ \o [j \in 1..Len(new_metrics) |->
                 new_metrics[Len(new_metrics) + 1 - j]]]

\* Lines 127-128
Extend(ilm, new_metrics) ==
    IF new_metrics # <<>>
    THEN [ilm EXCEPT !.metrics = @ \o new_metrics]
    ELSE ilm

\* Lines 102-128, one scope: the scope as it is left, and the calls made.
AugmentIlm(ilm, calls, clock) ==
    LET st == ScanMetrics(ScopeStart(calls), ilm.metrics, 1, clock)
    IN  [msg |-> Extend(ilm, st.new_metrics_to_add), calls |-> st.calls]

RECURSIVE AugmentIlms(_, _, _, _)
\* Line 102: the scopes of one resource_metrics, from the i-th on
AugmentIlms(ilms, i, calls, clock) ==
    IF i > Len(ilms) THEN [msgs |-> ilms, calls |-> calls]
    ELSE LET a == AugmentIlm(ilms[i], calls, clock)
         IN  AugmentIlms([ilms EXCEPT ![i] = a.msg], i + 1, a.calls, clock)

RECURSIVE AugmentResourceMetrics(_, _, _, _)
\* Line 101: the resource_metrics of one request, from the i-th on
AugmentResourceMetrics(rms, i, calls, clock) ==
    IF i > Len(rms) THEN [msgs |-> rms, calls |-> calls]
    ELSE LET a == AugmentIlms(rms[i].instrumentation_library_metrics, 1,
                              calls, clock)
         IN  AugmentResourceMetrics(
                 [rms EXCEPT ![i].instrumentation_library_metrics = a.msgs],
                 i + 1, a.calls, clock)

RECURSIVE AugmentRequests(_, _, _, _)
\* Line 100: the requests, from the i-th on
AugmentRequests(requests, i, calls, clock) ==
    IF i > Len(requests) THEN [msgs |-> requests, calls |-> calls]
    ELSE LET a == AugmentResourceMetrics(requests[i].resource_metrics, 1,
                                         calls, clock)
         IN  AugmentRequests([requests EXCEPT ![i].resource_metrics = a.msgs],
                             i + 1, a.calls, clock)

\* The requests as the call leaves them (it mutates them in place).
add_custom_summary_metric(requests, clock) ==
    IF ~ConfigurationComplete THEN requests
    ELSE AugmentRequests(requests, 1, 0, clock).msgs

\* The number of calls of time.time() the call makes: one for every call
\* of create_custom_summary_metric, whatever the clock reads.
TimeCalls(requests) ==
    IF ~ConfigurationComplete THEN 0
    ELSE AugmentRequests(requests, 1, 0, <<0>>).calls

\* ------------------------------------------------------------------------
\* base64.b64decode(str) and base64.b64encode(bytes).decode('utf-8')
\* ------------------------------------------------------------------------

\* Characters of a str: 0..63 the base64 alphabet, then
Pad == 64        \* '='
NonAlphabet == 65 \* an ASCII character outside the alphabet
NonAscii == 66    \* a character outside ASCII

RECURSIVE A2bLoop(_, _, _, _, _, _)
\* binascii.a2b_base64 with strict_mode off: characters outside the
\* alphabet are skipped, a complete pad sequence ends the input, and a
\* quad left incomplete at the end is a binascii.Error.
A2bLoop(ascii, i, quad_pos, leftchar, pads, out) ==
    IF i > Len(ascii)
    THEN IF quad_pos # 0 THEN [err |-> "binascii.Error"]
         ELSE [err |-> "", bytes |-> out]
    ELSE LET this_ch == ascii[i] IN
         IF this_ch = Pad
         THEN IF quad_pos >= 2 /\ quad_pos + pads + 1 >= 4
              THEN [err |-> "", bytes |-> out]
              ELSE A2bLoop(ascii, i + 1, quad_pos, leftchar,
                           IF quad_pos >= 2 THEN pads + 1 ELSE pads, out)
         ELSE IF this_ch >= 64
              THEN A2bLoop(ascii, i + 1, quad_pos, leftchar, pads, out)
         ELSE IF quad_pos = 0
              THEN A2bLoop(ascii, i + 1, 1, this_ch, 0, out)
         ELSE IF quad_pos = 1
              THEN A2bLoop(ascii, i + 1, 2, this_ch % 16, 0,
                           Append(out, leftchar * 4 + this_ch \div 16))
         ELSE IF quad_pos = 2
              THEN A2bLoop(ascii, i + 1, 3, this_ch % 4, 0,
                           Append(out, leftchar * 16 + this_ch \div 4))
         ELSE A2bLoop(ascii, i + 1, 0, 0, 0,
                      Append(out, leftchar * 64 + this_ch))

\* The bytes the loop has written, and the state it is in, after a run of
\* alphabet characters d read from the start (no pad among them).
A2bData(d) ==
    LET n == Len(d)
        q == n % 4
        nbytes == 3 * (n \div 4) + (IF q >= 2 THEN q - 1 ELSE 0)
    IN  [quad_pos |-> q,
         leftchar |-> IF q = 0 THEN 0
                      ELSE IF q = 1 THEN d[n]
                      ELSE IF q = 2 THEN d[n] % 16
                      ELSE d[n] % 4,
         out |-> [k \in 1..nbytes |->
                    LET g == 4 * ((k - 1) \div 3)
                        r == (k - 1) % 3
                    IN  IF r = 0 THEN d[g + 1] * 4 + d[g + 2] \div 16
                        ELSE IF r = 1
                             THEN (d[g + 2] % 16) * 16 + d[g + 3] \div 4
                        ELSE (d[g + 3] % 4) * 64 + d[g + 4]]]

\* base64.b64decode(s): a str is first encoded as ASCII (ValueError when it
\* cannot be).  The characters before the first '=' are decoded in one
\* step (A2bData), the loop takes over from there.
b64decode(str) ==
    IF \E i \in 1..Len(str) : str[i] = NonAscii THEN [err |-> "ValueError"]
    ELSE LET pads  == {i \in 1..Len(str) : str[i] = Pad}
             first == IF pads = {} THEN Len(str) + 1
                      ELSE CHOOSE i \in pads : \A k \in pads : i <= k
             d     == SelectSeq(SubSeq(str, 1, first - 1), LAMBDA c : c < 64)
             st    == A2bData(d)
         IN  A2bLoop(str, first, st.quad_pos, st.leftchar, 0, st.out)

\* base64.b64encode(bytes).decode('utf-8')
b64encode(bytes) ==
    LET n == Len(bytes)
        At(j) == IF j <= n THEN bytes[j] ELSE 0
    IN  [i \in 1..(4 * ((n + 2) \div 3)) |->
            LET g == 3 * ((i - 1) \div 4)
                k == (i - 1) % 4
            IN  IF k = 0 THEN At(g + 1) \div 4
                ELSE IF k = 1 THEN (At(g + 1) % 4) * 16 + At(g + 2) \div 16
                ELSE IF k = 2
                     THEN IF g + 2 > n THEN Pad
                          ELSE (At(g + 2) % 16) * 4 + At(g + 3) \div 64
                ELSE IF g + 3 > n THEN Pad ELSE At(g + 3) % 64]

\* ------------------------------------------------------------------------
\* handler (lines 149-177)
\* ------------------------------------------------------------------------

\* The failed record's data dropped.
ProcessingFailedNoData(record) ==
    [recordId |-> record.recordId, result |-> "ProcessingFailed",
     data |-> <<>>]

\* The failed record's id dropped.
ProcessingFailedNoId(record) ==
    [recordId |-> "", result |-> "ProcessingFailed", data |-> record.data]

\* Lines 171-175
ProcessingFailed(record) ==
    [recordId |-> record.recordId, result |-> "ProcessingFailed",
     data |-> record.data]

\* Lines 157-158: the requests the record's data decodes to, or the
\* exception that b64decode or parse_delimited_stream raises.
DecodeRecord(record) ==
    LET payload_bytes == b64decode(record.data) IN
    IF payload_bytes.err # "" THEN [err |-> payload_bytes.err]
    ELSE parse_delimited_stream(payload_bytes.bytes)

\* Lines 155-175, after lines 157-158: the output record appended for
\* one input record.
ProcessDecoded(record, metric_requests, clock) ==
    IF metric_requests.err # "" THEN ProcessingFailed(record)
    ELSE LET record_id == record.recordId
             augmented ==
                 add_custom_summary_metric(metric_requests.messages, clock)
             output_payload_bytes ==
                 serialize_requests_to_delimited_stream(augmented)
         IN  [recordId |-> record_id, result |-> "Ok",
              data |-> b64encode(output_payload_bytes)]

\* ------------------------------------------------------------------------
\* Inputs
\* ------------------------------------------------------------------------

\* "f1", "f2", "f3", "Other", "cpu", "env", "prod"
StrF1 == <<102, 49>>
StrF2 == <<102, 50>>
StrF3 == <<102, 51>>
StrOther == <<79, 116, 104, 101, 114>>
StrCpu == <<99, 112, 117>>
StrEnv == <<101, 110, 118>>
StrProd == <<112, 114, 111, 100>>

\* Messages as the parser builds them.
DataPointOf(labels) == [labels |-> labels, rest |-> <<>>]
MetricOf(name, data, data_points) ==
    [name |-> name, description |-> <<>>, unit |-> <<>>, data |-> data,
     data_points |-> data_points, rest |-> <<>>, unknown |-> <<>>]
IlmOf(metrics) ==
    [instrumentation_library |-> <<>>, metrics |-> metrics, unknown |-> <<>>]
ResourceMetricsOf(ilms) ==
    [resource |-> <<>>, instrumentation_library_metrics |-> ilms,
     unknown |-> <<>>]
RequestOf(rms) == [resource_metrics |-> rms, unknown |-> <<>>]

FnLabel(value) == StringKeyValue(FUNCTION_NAME_LABEL_KEY, value)

\* The environments the module is loaded in.  The target names are
\* "f1, <U+00A0>f2<U+2003>" (the names f1 and f2), not set,
\* " ,<U+3000>" (no name) and "f1".
Environments ==
    {[TARGET_FUNCTION_NAMES |->
          <<102, 49, 44, 32, 194, 160, 102, 50, 226, 128, 131>>,
      ATTRIBUTE_KEY |-> StrEnv, ATTRIBUTE_VALUE |-> StrProd],
     [ATTRIBUTE_KEY |-> StrEnv, ATTRIBUTE_VALUE |-> StrProd],
     [TARGET_FUNCTION_NAMES |-> <<32, 44, 227, 128, 128>>,
      ATTRIBUTE_KEY |-> StrEnv, ATTRIBUTE_VALUE |-> StrProd],
     [TARGET_FUNCTION_NAMES |-> StrF1, ATTRIBUTE_VALUE |-> StrProd],
     [TARGET_FUNCTION_NAMES |-> StrF1, ATTRIBUTE_KEY |-> StrEnv,
      ATTRIBUTE_VALUE |-> <<>>]}

\* Lines 20-25
LoadModule(environ) ==
    /\ TARGET_FUNCTION_NAMES =
           SplitNames(EnvironGet(environ, "TARGET_FUNCTION_NAMES", <<>>))
    /\ ATTRIBUTE_KEY = EnvironGet(environ, "ATTRIBUTE_KEY", None)
    /\ ATTRIBUTE_VALUE = EnvironGet(environ, "ATTRIBUTE_VALUE", None)

\* One request, one resource, one scope, one double_gauge metric with one
\* data point labelled FunctionName = value.
GaugeRequest(value) ==
    RequestOf(<<ResourceMetricsOf(<<IlmOf(<<
        MetricOf(StrCpu, "double_gauge", <<DataPointOf(<<FnLabel(value)>>)>>)
    >>)>>)>>)

\* Two scopes.  The first: f1 on two data points of a gauge, a metric with
\* no data, a summary labelled f3 and f2, a histogram labelled f1 again.
\* The second: f1.  Then a resource with no scope.
TwoScopeRequest ==
    RequestOf(<<
        ResourceMetricsOf(<<
            IlmOf(<<MetricOf(StrCpu, "double_gauge",
                        <<DataPointOf(<<FnLabel(StrF1)>>),
                          DataPointOf(<<StringKeyValue(StrOther, StrF2),
                                        FnLabel(StrF1)>>)>>),
                    MetricOf(StrCpu, "None", <<>>),
                    MetricOf(<<>>, "double_summary",
                        <<DataPointOf(<<FnLabel(StrF3), FnLabel(StrF2)>>)>>),
                    MetricOf(StrCpu, "int_histogram",
                        <<DataPointOf(<<FnLabel(StrF1)>>)>>)>>),
            IlmOf(<<MetricOf(StrCpu, "double_gauge",
                        <<DataPointOf(<<FnLabel(StrF1)>>)>>)>>)>>),
        ResourceMetricsOf(<<>>)>>)

\* A request as another encoder may write it: an unknown field (15, varint)
\* ahead of resource_metrics, and in the metric the unit ahead of the name.
\* It parses; serialized again it is not these bytes.
ReorderedMessage ==
    <<120, 1>>
    \o LenField(1, LenField(2, LenField(2,
           LenField(3, CustomMetricUnit) \o LenField(1, StrCpu)
           \o LenField(5, LenField(1, LenField(1,
                  SerializeLabel(FnLabel(StrF2))))))))

\* Payloads (bytes) of the records of an event.
WellFormedPayloads ==
    {Frame(SerializeToString(RequestOf(<<>>))) \o Frame(ReorderedMessage),
     Frame(SerializeToString(GaugeRequest(StrF1))),
     Frame(SerializeToString(GaugeRequest(StrF3)))
         \o Frame(SerializeToString(TwoScopeRequest))}

\* A frame cut short: the length prefix declares more bytes than remain.
CutShort(payload, n) == SubSeq(payload, 1, Len(payload) - n)

MalformedPayloads ==
    {<<128>>,                                     \* truncated length prefix
     <<5>>,                                       \* 5 declared, 0 remain
     \* a second frame whose body is no message
     Frame(SerializeToString(GaugeRequest(StrF1))) \o <<2, 10, 5>>}

\* Frames that declare more bytes than remain, and whose bytes are no
\* message.
OverrunPayloads ==
    {CutShort(Frame(SerializeToString(GaugeRequest(StrF1))), 1),
     Frame(SerializeToString(GaugeRequest(StrF1))) \o <<3, 10>>}

\* record['data'] of a well-formed record: the base64 text of a well-formed
\* payload.
WellFormedData == {b64encode(payload) : payload \in WellFormedPayloads}

\* record['data'] of a malformed record: a malformed payload, or text that
\* is not base64 (one character too many).
MalformedData ==
    {b64encode(payload) : payload \in MalformedPayloads}
    \cup {b64encode(<<0, 0, 0>>) \o <<0>>}


\* ------------------------------------------------------------------------
\* Spec: handler, one record of the event per step
\* ------------------------------------------------------------------------

\* The most records in an event.
MaxRecords == 2

\* Firehose's record ids: here the record's place in the event.
RecordsOf(datas) ==
    [i \in 1..Len(datas) |-> [recordId |-> ToString(i), data |-> datas[i]]]

RECURSIVE SeqsUpTo(_, _)
\* The sequences over S of length at most n
SeqsUpTo(S, n) ==
    IF n = 0 THEN {<<>>}
    ELSE LET shorter == SeqsUpTo(S, n - 1)
         IN  shorter \cup {Append(q, x) : q \in {t \in shorter : Len(t) = n - 1},
                                          x \in S}

Events ==
    {[records |-> RecordsOf(datas)] :
         datas \in SeqsUpTo(WellFormedData \cup MalformedData, MaxRecords)}

\* The readings of time.time() while a record is processed: the last tick
\* of a second and the first tick of the next.
ClockReadings == {TicksPerSecond - 1, TicksPerSecond}

\* What time.time() may return while the decoded requests of a record
\* are processed: one reading for each call, in any order (the wall clock
\* may stand still, step forward, or step back).
ClockRuns(metric_requests) ==
    IF metric_requests.err # "" THEN {<<>>}
    ELSE [1..TimeCalls(metric_requests.messages) -> ClockReadings]

\* The loop variables of add_custom_summary_metric, as indices: 0 before
\* the first element.
AtStart ==
    [request |-> 0, resource_metrics |-> 0, ilm |-> 0, metric |-> 0, dp |-> 0,
     label |-> 0]

NoScan ==
    /\ reqs = <<>> /\ original = <<>> /\ at = AtStart
    /\ processed_functions = {} /\ new_metrics_to_add = <<>>
    /\ wall_clock = 0 /\ last_created = <<>>
NoFrames == stream = <<>> /\ parsed = <<>>
NoEvent == event = [records |-> <<>>] /\ output_records = <<>>
scan == <<reqs, original, at, processed_functions, new_metrics_to_add,
          wall_clock, last_created>>
frames == <<stream, parsed>>
records == <<event, output_records>>

Init ==
    /\ \E environ \in Environments : LoadModule(environ)
    /\ event \in Events
    /\ output_records = <<>>
    /\ pc = "handler"
    /\ NoScan /\ NoFrames

\* Lines 154-175: the loop body for the next record
HandleRecord ==
    /\ pc = "handler"
    /\ Len(output_records) < Len(event.records)
    /\ LET record == event.records[Len(output_records) + 1]
           metric_requests == DecodeRecord(record)
       IN  \E clock \in ClockRuns(metric_requests) :
               output_records' =
                   Append(output_records,
                          ProcessDecoded(record, metric_requests, clock))
    /\ UNCHANGED <<config, event, pc, scan, frames>>

\* Lines 176-177: return {'records': output_records}
Return ==
    /\ pc = "handler"
    /\ Len(output_records) = Len(event.records)
    /\ pc' = "returned"
    /\ UNCHANGED <<config, event, output_records, scan, frames>>

Next == HandleRecord \/ Return

Spec == Init /\ [][Next]_vars

\* ------------------------------------------------------------------------
\* SpecScan: add_custom_summary_metric, one statement per step, while the
\* wall clock runs
\* ------------------------------------------------------------------------

\* The most metrics in a generated scope.
MaxMetrics == 2

\* Metrics a scope is made of: f1 on one data point; f1 on two; no data;
\* f3 (no target) and f2 on one data point; f2 under another key and f1
\* under the key with another value.
MetricPool ==
    {MetricOf(StrCpu, "double_gauge", <<DataPointOf(<<FnLabel(StrF1)>>)>>),
     MetricOf(StrCpu, "int_sum",
         <<DataPointOf(<<FnLabel(StrF1)>>),
           DataPointOf(<<StringKeyValue(StrOther, StrF2), FnLabel(StrF1)>>)>>),
     MetricOf(StrCpu, "None", <<>>),
     MetricOf(<<>>, "double_summary",
         <<DataPointOf(<<FnLabel(StrF3), FnLabel(StrF2)>>)>>),
     MetricOf(StrCpu, "int_histogram",
         <<DataPointOf(<<>>),
           DataPointOf(<<StringKeyValue(StrOther, StrF1),
                         FnLabel(StrOther)>>)>>)}

\* The lists of requests add_custom_summary_metric is called with.
ScanInputs ==
    {<<>>, <<RequestOf(<<>>)>>, <<GaugeRequest(StrF3), TwoScopeRequest>>}
    \cup {<<RequestOf(<<ResourceMetricsOf(<<IlmOf(metrics)>>)>>)>> :
              metrics \in SeqsUpTo(MetricPool, MaxMetrics)}

InitScan ==
    /\ \E environ \in Environments : LoadModule(environ)
    /\ reqs \in ScanInputs
    /\ original = reqs
    /\ at = AtStart
    /\ processed_functions = {}
    /\ new_metrics_to_add = <<>>
    /\ wall_clock = 0
    /\ last_created = <<>>
    /\ pc = "add_custom_summary_metric"
    /\ NoEvent /\ NoFrames

\* The elements the loop variables stand at.
TheRequest == reqs[at.request]
TheResourceMetrics == TheRequest.resource_metrics[at.resource_metrics]
TheIlm == TheResourceMetrics.instrumentation_library_metrics[at.ilm]
TheMetric == TheIlm.metrics[at.metric]
TheDp == TheMetric.data_points[at.dp]

\* Lines 94-98
Enter ==
    /\ pc = "add_custom_summary_metric"
    /\ pc' = IF ~ConfigurationComplete THEN "return" ELSE "for_request"
    /\ UNCHANGED <<config, records, scan, frames>>

\* Line 100: for request in requests
ForRequest ==
    /\ pc = "for_request"
    /\ IF at.request < Len(reqs)
       THEN /\ at' = [at EXCEPT !.request = @ + 1, !.resource_metrics = 0]
            /\ pc' = "for_resource_metrics"
       ELSE /\ pc' = "return"
            /\ UNCHANGED at
    /\ UNCHANGED <<config, records, reqs, original, processed_functions,
                   new_metrics_to_add, wall_clock, last_created, frames>>

\* Line 101: for resource_metrics in request.resource_metrics
ForResourceMetrics ==
    /\ pc = "for_resource_metrics"
    /\ IF at.resource_metrics < Len(TheRequest.resource_metrics)
       THEN /\ at' = [at EXCEPT !.resource_metrics = @ + 1, !.ilm = 0]
            /\ pc' = "for_ilm"
       ELSE /\ pc' = "for_request"
            /\ UNCHANGED at
    /\ UNCHANGED <<config, records, reqs, original, processed_functions,
                   new_metrics_to_add, wall_clock, last_created, frames>>

\* Lines 102-106: for ilm in ...instrumentation_library_metrics, and the
\* scope's fresh set and list
ForIlm ==
    /\ pc = "for_ilm"
    /\ IF at.ilm < Len(TheResourceMetrics.instrumentation_library_metrics)
       THEN /\ at' = [at EXCEPT !.ilm = @ + 1, !.metric = 0]
            /\ processed_functions' = {}
            /\ new_metrics_to_add' = <<>>
            /\ pc' = "for_metric"
       ELSE /\ pc' = "for_resource_metrics"
            /\ UNCHANGED <<at, processed_functions, new_metrics_to_add>>
    /\ UNCHANGED <<config, records, reqs, original, wall_clock, last_created,
                   frames>>

\* Lines 107-111: for metric in ilm.metrics, and the metrics with no data
\* passed over
ForMetric ==
    /\ pc = "for_metric"
    /\ IF at.metric < Len(TheIlm.metrics)
       THEN LET metric_type == TheIlm.metrics[at.metric + 1].data IN
            /\ at' = [at EXCEPT !.metric = @ + 1, !.dp = 0]
            /\ pc' = IF metric_type = "None" THEN "for_metric" ELSE "for_dp"
       ELSE /\ pc' = "extend"
            /\ UNCHANGED at
    /\ UNCHANGED <<config, records, reqs, original, processed_functions,
                   new_metrics_to_add, wall_clock, last_created, frames>>

\* Line 112: for dp in metric_data.data_points
ForDp ==
    /\ pc = "for_dp"
    /\ IF at.dp < Len(TheMetric.data_points)
       THEN /\ at' = [at EXCEPT !.dp = @ + 1, !.label = 0]
            /\ pc' = "for_label"
       ELSE /\ pc' = "for_metric"
            /\ UNCHANGED at
    /\ UNCHANGED <<config, records, reqs, original, processed_functions,
                   new_metrics_to_add, wall_clock, last_created, frames>>

\* Lines 113-124: for label in dp.labels, and the loop's body
ForLabel ==
    /\ pc = "for_label"
    /\ IF at.label < Len(TheDp.labels)
       THEN LET label == TheDp.labels[at.label + 1] IN
            /\ at' = [at EXCEPT !.label = @ + 1]
            /\ pc' = "for_label"
            /\ IF IsNewTarget(label, processed_functions)
               THEN LET function_name == label.value
                        info_metric ==
                            create_custom_summary_metric(
                                function_name, CustomAttrs, wall_clock)
                    IN  /\ new_metrics_to_add' =
                               Append(new_metrics_to_add, info_metric)
                        /\ processed_functions' =
                               processed_functions \cup {function_name}
                        /\ last_created' =
                               [function_name |-> function_name,
                                custom_attrs |-> CustomAttrs,
                                now |-> wall_clock,
                                metric |-> info_metric]
               ELSE UNCHANGED <<new_metrics_to_add, processed_functions,
                                last_created>>
       ELSE /\ pc' = "for_dp"
            /\ UNCHANGED <<at, new_metrics_to_add, processed_functions,
                           last_created>>
    /\ UNCHANGED <<config, records, reqs, original, wall_clock, frames>>

\* Lines 127-128
ExtendStep ==
    /\ pc = "extend"
    /\ reqs' = [reqs EXCEPT
                   ![at.request].resource_metrics[at.resource_metrics]
                       .instrumentation_library_metrics[at.ilm] =
                           Extend(@, new_metrics_to_add)]
    /\ pc' = "for_ilm"
    /\ UNCHANGED <<config, records, original, at, processed_functions,
                   new_metrics_to_add, wall_clock, last_created, frames>>

\* The largest reading of the clock, in ticks.
MaxClock == 3

\* The wall clock moves while the function runs: forward, or back when
\* it is set.
Tick ==
    /\ pc \notin {"add_custom_summary_metric", "return"}
    /\ wall_clock' \in (0..MaxClock) \ {wall_clock}
    /\ UNCHANGED <<config, records, pc, reqs, original, at,
                   processed_functions, new_metrics_to_add, last_created,
                   frames>>

NextScan ==
    \/ Enter
    \/ ForRequest
    \/ ForResourceMetrics
    \/ ForIlm
    \/ ForMetric
    \/ ForDp
    \/ ForLabel
    \/ ExtendStep
    \/ Tick

SpecScan == InitScan /\ [][NextScan]_vars

\* ------------------------------------------------------------------------
\* SpecFrames: the frame codec on its own; a list of requests written and
\* read back, or a stream as received
\* ------------------------------------------------------------------------

\* The most requests written to a stream.
MaxFrames == 2
\* The most bytes of a generated received stream.
MaxStreamLen == 3

\* Requests to write: of zero bytes, of fewer than 128, of more, and one
\* holding a metric made by create_custom_summary_metric.
FrameRequests ==
    {RequestOf(<<>>),
     GaugeRequest(StrF1),
     TwoScopeRequest,
     RequestOf(<<ResourceMetricsOf(<<IlmOf(<<
         create_custom_summary_metric(
             StrF1, <<[key |-> StrEnv, value |-> StrProd]>>, TicksPerSecond)
     >>)>>)>>)}

\* Bytes of the generated received streams: a zero length, lengths of 1,
\* 2 and 10 (also the tag of field 1), and a continuation byte.
ReceivedBytes == {0, 1, 2, 10, 128}

ReceivedStreams ==
    SeqsUpTo(ReceivedBytes, MaxStreamLen)
    \cup WellFormedPayloads \cup MalformedPayloads \cup OverrunPayloads

InitFrames ==
    /\ \E environ \in Environments : LoadModule(environ)
    /\ \/ /\ pc = "serialize"
          /\ reqs \in SeqsUpTo(FrameRequests, MaxFrames)
          /\ stream = <<>>
       \/ /\ pc = "received"
          /\ reqs = <<>>
          /\ stream \in ReceivedStreams
    /\ parsed = <<>>
    /\ original = <<>> /\ at = AtStart
    /\ processed_functions = {} /\ new_metrics_to_add = <<>>
    /\ wall_clock = 0 /\ last_created = <<>>
    /\ NoEvent

\* serialize_requests_to_delimited_stream(requests)
SerializeStep ==
    /\ pc = "serialize"
    /\ stream' = serialize_requests_to_delimited_stream(reqs)
    /\ pc' = "serialized"
    /\ UNCHANGED <<config, records, scan, parsed>>

\* parse_delimited_stream(data)
ParseStep ==
    /\ pc \in {"serialized", "received"}
    /\ parsed' = parse_delimited_stream(stream)
    /\ pc' = IF pc = "serialized" THEN "read_back" ELSE "parsed"
    /\ UNCHANGED <<config, records, scan, stream>>

NextFrames == SerializeStep \/ ParseStep

SpecFrames == InitFrames /\ [][NextFrames]_vars

\* ------------------------------------------------------------------------
\* Properties
\* ------------------------------------------------------------------------

\* Processing the record fails: one of the calls in the try block raises.
Raises(record) == DecodeRecord(record).err # ""

\* A step that changes the output records appends one record, for the
\* next input record: 'ProcessingFailed' when processing that record
\* fails, and with the input record's data when 'ProcessingFailed'.
C1_FailedRecordAppended ==
    output_records' # output_records =>
        LET i      == Len(output_records) + 1
            record == event.records[i]
            out    == output_records'[i]
        IN  /\ output_records' = Append(output_records, out)
            /\ Raises(record) => out.result = "ProcessingFailed"
            /\ out.result = "ProcessingFailed" => out.data = record.data

\* C1: for every record whose processing fails handler emits the result
\* 'ProcessingFailed', and the data of a 'ProcessingFailed' result is the
\* record's input data as it came: nothing augmented or re-encoded is
\* emitted for it.  (The output starts empty, the event does not change,
\* and every record is emitted by one such step.)
C1_FailedRecordKeepsItsData ==
    /\ output_records = <<>>
    /\ [][event' = event /\ C1_FailedRecordAppended]_vars

\* A record failed after its first frame was parsed, the configuration
\* being complete.
C1_Witness ==
    /\ ConfigurationComplete
    /\ \E i \in 1..Len(output_records) :
           /\ event.records[i].data =
                  b64encode(Frame(SerializeToString(GaugeRequest(StrF1)))
                            \o <<2, 10, 5>>)
           /\ output_records[i].result = "ProcessingFailed"

\* C2: one output record per input record, in the input's order, each
\* with the recordId of the input record at its place and the result 'Ok'
\* or 'ProcessingFailed'; when handler returns there are as many output
\* records as input records (none for an empty list).
C2_OneResultPerRecordInOrder ==
    /\ Len(output_records) <= Len(event.records)
    /\ \A i \in 1..Len(output_records) :
           /\ output_records[i].recordId = event.records[i].recordId
           /\ output_records[i].result \in {"Ok", "ProcessingFailed"}
    /\ pc = "returned" => Len(output_records) = Len(event.records)

\* handler has returned two records, the first failed, the second not.
C2_Witness ==
    /\ pc = "returned"
    /\ Len(event.records) = 2
    /\ output_records[1].result = "ProcessingFailed"
    /\ output_records[2].result = "Ok"
    /\ output_records[2].recordId = "2"

RECURSIVE FaultFrom(_, _)
\* A stream's framing is at fault when, from some frame's start on, the
\* length prefix does not decode or declares more bytes than remain.
FaultFrom(data, position) ==
    IF position >= Len(data) THEN FALSE
    ELSE LET v == DecodeVarint32(data, position) IN
         IF v.err # "" THEN TRUE
         ELSE IF v.value > Len(data) - v.pos THEN TRUE
         ELSE FaultFrom(data, v.pos + v.value)

FramingFault(data) == FaultFrom(data, 0)

\* A record is malformed when its data is no base64 text, the framing of
\* its payload is at fault, or a frame does not decode as a message.
IsMalformed(record) ==
    LET payload_bytes == b64decode(record.data) IN
    \/ payload_bytes.err # ""
    \/ FramingFault(payload_bytes.bytes)
    \/ parse_delimited_stream(payload_bytes.bytes).err # ""

\* C3: when exactly one record of the event is malformed, handler returns
\* 'ProcessingFailed' for that record and 'Ok' for every other one.
C3_OneMalformedOneFailed ==
    pc = "returned" =>
        LET bad == {i \in 1..Len(event.records) :
                        IsMalformed(event.records[i])}
        IN  Cardinality(bad) = 1 =>
                \A i \in 1..Len(event.records) :
                    output_records[i].result =
                        IF i \in bad THEN "ProcessingFailed" ELSE "Ok"

\* The scopes of a list of requests, as index triples.
ScopePaths(requests) ==
    {path \in (1..Len(requests)) \X (1..4) \X (1..4) :
        /\ path[2] <= Len(requests[path[1]].resource_metrics)
        /\ path[3] <= Len(requests[path[1]].resource_metrics[path[2]]
                              .instrumentation_library_metrics)}

ScopeAt(requests, path) ==
    requests[path[1]].resource_metrics[path[2]]
        .instrumentation_library_metrics[path[3]]

\* The scope the loop variables stand at.
CurrentPath == <<at.request, at.resource_metrics, at.ilm>>

\* The values v of the target set that a label FunctionName = v of some
\* data point of some of the metrics carries.
TargetValuesIn(metrics) ==
    {v \in {TARGET_FUNCTION_NAMES[j] : j \in 1..Len(TARGET_FUNCTION_NAMES)} :
        \E i \in 1..Len(metrics) :
            \E d \in 1..Len(metrics[i].data_points) :
                \E l \in 1..Len(metrics[i].data_points[d].labels) :
                    LET label == metrics[i].data_points[d].labels[l] IN
                    label.key = FUNCTION_NAME_LABEL_KEY /\ label.value = v}

\* How many data points of the metrics carry FunctionName = v.
Carriers(metrics, v) ==
    Cardinality(
        {p \in (1..Len(metrics)) \X (1..4) :
            /\ p[2] <= Len(metrics[p[1]].data_points)
            /\ \E l \in 1..Len(metrics[p[1]].data_points[p[2]].labels) :
                   LET label == metrics[p[1]].data_points[p[2]].labels[l] IN
                   label.key = FUNCTION_NAME_LABEL_KEY /\ label.value = v})

\* A synthetic metric, and the function value it is for.
IsSynthetic(metric) ==
    /\ metric.name = CustomMetricName
    /\ metric.data = "double_summary"
    /\ Len(metric.data_points) = 1
    /\ "quantile_values" \in DOMAIN metric.data_points[1]
FunctionOf(metric) == metric.data_points[1].labels[3].value

\* The metrics a scope has beyond those it had.
Appended(path) ==
    SubSeq(ScopeAt(reqs, path).metrics,
           Len(ScopeAt(original, path).metrics) + 1,
           Len(ScopeAt(reqs, path).metrics))

\* C4: with complete configuration, when add_custom_summary_metric
\* returns, every scope has been appended one synthetic metric for each
\* target value that a FunctionName label of the scope's original data
\* points carries, and none else, each scope on its own.
C4_OneSyntheticPerTargetPerScope ==
    (pc = "return" /\ ConfigurationComplete) =>
        \A path \in ScopePaths(original) :
            LET expected == TargetValuesIn(ScopeAt(original, path).metrics)
                appended == Appended(path)
            IN  /\ \A j \in 1..Len(appended) : IsSynthetic(appended[j])
                /\ {FunctionOf(appended[j]) : j \in 1..Len(appended)}
                       = expected
                /\ Len(appended) = Cardinality(expected)

\* Returned from a request with two scopes that both carry f1, the first
\* on three data points: one synthetic metric for f1 in each.
C4_Witness ==
    /\ pc = "return"
    /\ ConfigurationComplete
    /\ Len(original) = 2
    /\ Carriers(ScopeAt(original, <<2, 1, 1>>).metrics, StrF1) = 3
    /\ Carriers(ScopeAt(original, <<2, 1, 2>>).metrics, StrF1) = 1
    /\ Len(Appended(<<2, 1, 1>>)) = 2
    /\ FunctionOf(Appended(<<2, 1, 1>>)[1]) = StrF1
    /\ Len(Appended(<<2, 1, 2>>)) = 1
    /\ FunctionOf(Appended(<<2, 1, 2>>)[1]) = StrF1

\* One of the three configuration values is absent or empty.
ConfigurationIncomplete ==
    \/ TARGET_FUNCTION_NAMES = <<>>
    \/ ATTRIBUTE_KEY \in {None, <<>>}
    \/ ATTRIBUTE_VALUE \in {None, <<>>}

\* C5: with incomplete configuration handler returns, for every record
\* that decodes, the result 'Ok' and as data the record's messages
\* re-encoded as they were read, with nothing appended.
C5_IncompleteConfigurationPassesThrough ==
    (pc = "returned" /\ ConfigurationIncomplete) =>
        \A i \in 1..Len(output_records) :
            LET decoded == DecodeRecord(event.records[i]) IN
            decoded.err = "" =>
                output_records[i] =
                    [recordId |-> event.records[i].recordId,
                     result |-> "Ok",
                     data |-> b64encode(
                         serialize_requests_to_delimited_stream(
                             decoded.messages))]

\* f1 is a target and a record labelled f1 was returned 'Ok', while the
\* attribute key is not set.
C5_Witness ==
    /\ pc = "returned"
    /\ TARGET_FUNCTION_NAMES = <<StrF1>>
    /\ ATTRIBUTE_KEY = None
    /\ \E i \in 1..Len(output_records) :
           /\ event.records[i].data =
                  b64encode(Frame(SerializeToString(GaugeRequest(StrF1))))
           /\ output_records[i].result = "Ok"

\* The requests with every scope's metric list emptied.
WithoutMetrics(requests) ==
    [r \in 1..Len(requests) |->
        [requests[r] EXCEPT !.resource_metrics =
            [m \in 1..Len(@) |->
                [@[m] EXCEPT !.instrumentation_library_metrics =
                    [s \in 1..Len(@) |-> [@[s] EXCEPT !.metrics = <<>>]]]]]]

\* C6: at every point of add_custom_summary_metric the messages, resource
\* metrics and scopes are those passed, in number and order; every
\* scope's metric list begins with its original metrics, unchanged and in
\* order, and holds after them synthetic metrics only.
C6_OriginalMetricsUntouched ==
    /\ WithoutMetrics(reqs) = WithoutMetrics(original)
    /\ \A path \in ScopePaths(original) :
           LET was == ScopeAt(original, path).metrics
               is  == ScopeAt(reqs, path).metrics
           IN  /\ Len(is) >= Len(was)
               /\ SubSeq(is, 1, Len(was)) = was
               /\ \A j \in (Len(was) + 1)..Len(is) : IsSynthetic(is[j])

\* Returned with a synthetic metric appended to a scope of four metrics.
C6_Witness ==
    /\ pc = "return"
    /\ \E path \in ScopePaths(original) :
           /\ Len(ScopeAt(original, path).metrics) = 4
           /\ Len(ScopeAt(reqs, path).metrics) > 4

\* C7: parse_delimited_stream fails on every stream whose framing is at
\* fault: a length prefix that is truncated, or a declared length beyond
\* the bytes that remain.
C7_FramingFaultIsAnError ==
    (pc = "parsed" /\ FramingFault(stream)) => parsed.err # ""

\* The length of a varint length prefix.
PrefixLen(n) == IF n < 128 THEN 1 ELSE IF n < 16384 THEN 2 ELSE 3

RECURSIVE FramedLength(_)
\* The bytes the frames take with their prefixes.
FramedLength(msg_bufs) ==
    IF msg_bufs = <<>> THEN 0
    ELSE PrefixLen(Len(Head(msg_bufs))) + Len(Head(msg_bufs))
         + FramedLength(Tail(msg_bufs))

\* C8: a list of requests written by
\* serialize_requests_to_delimited_stream and read by
\* parse_delimited_stream gives, without error, as many messages, in the
\* same order, each from the very bytes that were written for it, and the
\* prefixes and messages together are the whole stream.
C8_FramingRoundTrip ==
    pc = "read_back" =>
        /\ parsed.err = ""
        /\ Len(parsed.messages) = Len(reqs)
        /\ parsed.frames = [j \in 1..Len(reqs) |-> SerializeToString(reqs[j])]
        /\ FramedLength(parsed.frames) = Len(stream)

\* Read back: a message of zero bytes, then one of 128 bytes or more.
C8_Witness ==
    /\ pc = "read_back"
    /\ Len(reqs) = 2
    /\ parsed.err = ""
    /\ Len(parsed.frames[1]) = 0
    /\ Len(parsed.frames[2]) >= 128

\* A label's key and value.
Pair(label) == <<label.key, label.value>>

\* C9: the metric create_custom_summary_metric last built, for function
\* value f and attribute (k, v): named amazonaws.com/AWS/Lambda/Custom,
\* of the summary kind, with one data point labelled Namespace=AWS/Lambda,
\* MetricName=Custom, FunctionName=f, k=v in this order, count 1, sum 1,
\* quantiles (0 -> 1), (1 -> 1), and start and observation time equal and
\* a whole number of seconds in nanoseconds.
C9_SyntheticMetricShape ==
    last_created # <<>> =>
        LET metric == last_created.metric
            dp     == metric.data_points[1]
        IN  /\ metric.name = CustomMetricName
            /\ metric.data = "double_summary"
            /\ Len(metric.data_points) = 1
            /\ [j \in 1..Len(dp.labels) |-> Pair(dp.labels[j])] =
                   <<<<StrNamespace, StrAwsLambda>>,
                     <<StrMetricName, StrCustom>>,
                     <<FUNCTION_NAME_LABEL_KEY, last_created.function_name>>,
                     <<last_created.custom_attrs[1].key,
                       last_created.custom_attrs[1].value>>>>
            /\ Len(last_created.custom_attrs) = 1
            /\ dp.count = 1
            /\ dp.sum = Double1
            /\ dp.quantile_values =
                   <<[quantile |-> Double0, value |-> Double1],
                     [quantile |-> Double1, value |-> Double1]>>
            /\ dp.start_time_unix_nano = dp.time_unix_nano
            /\ dp.time_unix_nano % 1000000000 = 0

\* A metric was built for f2 and env=prod while the clock stood inside
\* the second second.
C9_Witness ==
    /\ last_created # <<>>
    /\ last_created.function_name = StrF2
    /\ last_created.custom_attrs = <<[key |-> StrEnv, value |-> StrProd]>>
    /\ last_created.now = 2 * TicksPerSecond - 1
    /\ last_created.metric.data_points[1].time_unix_nano = 1000000000

\* The labels of the metrics' data points, in the order of the scan.
LabelsOf(metrics) ==
    Concat([i \in 1..Len(metrics) |->
        Concat([d \in 1..Len(metrics[i].data_points) |->
                   metrics[i].data_points[d].labels])])

RECURSIVE FirstSeen(_, _)
\* The target values the labels carry under FunctionName, each once, in
\* the order they are first met.
FirstSeen(labels, seen) ==
    IF labels = <<>> THEN <<>>
    ELSE LET label == Head(labels) IN
         IF /\ label.key = FUNCTION_NAME_LABEL_KEY
            /\ InList(label.value, TARGET_FUNCTION_NAMES)
            /\ label.value \notin seen
         THEN <<label.value>>
              \o FirstSeen(Tail(labels), seen \cup {label.value})
         ELSE FirstSeen(Tail(labels), seen)

\* While a scope is scanned its metric list is the original one, and the
\* scan stands at one of the original metrics.
C10_ScannedListUnmodified ==
    pc \in {"for_metric", "for_dp", "for_label", "extend"} =>
        /\ ScopeAt(reqs, CurrentPath).metrics =
               ScopeAt(original, CurrentPath).metrics
        /\ at.metric <= Len(ScopeAt(original, CurrentPath).metrics)

\* A step that changes the requests is the one extend step of the current
\* scope, taken when all its original metrics are scanned; it appends one
\* synthetic metric per target value, in the order the values were first
\* seen, and changes nothing else.
C10_AppendedInOneStep ==
    reqs' # reqs =>
        LET was == ScopeAt(original, CurrentPath).metrics IN
        /\ pc = "extend"
        /\ at.metric = Len(was)
        /\ [j \in 1..Len(new_metrics_to_add) |->
               FunctionOf(new_metrics_to_add[j])] =
               FirstSeen(LabelsOf(was), {})
        /\ reqs' = [reqs EXCEPT
                       ![at.request].resource_metrics[at.resource_metrics]
                           .instrumentation_library_metrics[at.ilm].metrics =
                               was \o new_metrics_to_add]

\* C10: read/append separation.  A scope's metric list is not modified
\* while the scope is scanned and only original metrics are scanned; the
\* synthetic metrics of a scope are appended in one step after the scan
\* of the scope, in the order their values were first seen.
C10_ReadAppendSeparation ==
    [](C10_ScannedListUnmodified) /\ [][C10_AppendedInOneStep]_vars

\* A scope has just been extended by two synthetic metrics, for f1 then
\* f2.
C10_Witness ==
    /\ pc = "for_ilm"
    /\ at.ilm >= 1
    /\ Len(new_metrics_to_add) = 2
    /\ FunctionOf(new_metrics_to_add[1]) = StrF1
    /\ FunctionOf(new_metrics_to_add[2]) = StrF2
    /\ ScopeAt(reqs, CurrentPath).metrics =
           ScopeAt(original, CurrentPath).metrics \o new_metrics_to_add

====
